---------------------------- MODULE Spec2Model ----------------------------
(***************************************************************************)
(* Gibson-Lanni PSF generator (src/generate_movie/microscPSF.py).          *)
(*                                                                         *)
(* The program is a library of pure functions that keep no state between  *)
(* calls.  A behaviour of the model is one call: fn names the function     *)
(* called ("none" before the call), args holds its arguments and ret what  *)
(* it returned or raised.                                                  *)
(*                                                                         *)
(* Three specifications look at the library at three levels:               *)
(*   Spec      the scan functions on arrays: numpy shapes, broadcasting,   *)
(*             and whether each cell is zero, positive or not finite;      *)
(*   SpecNum   configure, OPD, the radial transform's denominator and the  *)
(*             scale of the fast and the reference path, in binary         *)
(*             floating point, round to nearest even;                      *)
(*   SpecGeom  calcRv and psfRZToPSFXYZ in exact pixel geometry.           *)
(***************************************************************************)
EXTENDS Integers, Sequences, FiniteSets, TLC

VARIABLES fn, args, ret

vars == <<fn, args, ret>>

(***************************************************************************)
(* Binary floating point.  The code computes in IEEE-754 binary64 (53      *)
(* significand bits); TLC's integers are 32 bits wide, so the model keeps  *)
(* the format and the rounding rule and shortens the significand to Prec   *)
(* bits.  A finite value is m * 2^e with m = 0 or 2^(Prec-1) <= |m| <      *)
(* 2^Prec; the exponent range is unbounded (no value of the program is     *)
(* near overflow or underflow).                                            *)
(***************************************************************************)
Prec == 10

Pow2(n) == IF n <= 0 THEN 1 ELSE 2 ^ n

\* The number of bits of n, 0 <= n < 2^31.
BitLen4(n) == IF n < 4 THEN (IF n < 2 THEN n ELSE 2) ELSE (IF n < 8 THEN 3 ELSE 4)

BitLen8(n) == IF n < 16 THEN BitLen4(n) ELSE 4 + BitLen4(n \div 16)

BitLen(n) ==
    IF n < 65536
    THEN (IF n < 256 THEN BitLen8(n) ELSE 8 + BitLen8(n \div 256))
    ELSE (IF n < 16777216 THEN 16 + BitLen8(n \div 65536)
                          ELSE 24 + BitLen8(n \div 16777216))

RECURSIVE ISqrt(_)
ISqrt(n) ==
    IF n < 2 THEN n
    ELSE LET s == 2 * ISqrt(n \div 4)
         IN  IF (s + 1) * (s + 1) <= n THEN s + 1 ELSE s

Abs(n) == IF n < 0 THEN -n ELSE n

Sgn(n) == IF n > 0 THEN 1 ELSE IF n < 0 THEN -1 ELSE 0

Max2(a, b) == IF a >= b THEN a ELSE b

NaN == [k |-> "nan", m |-> 0, e |-> 0]

Inf(s) == [k |-> "inf", m |-> s, e |-> 0]

Zero == [k |-> "num", m |-> 0, e |-> 0]

IsNum(x) == x.k = "num"

IsNaN(x) == x.k = "nan"

\* The float nearest to M * 2^e (M any integer), ties to the even significand.
RoundNE(M, e) ==
    IF M = 0 THEN Zero
    ELSE LET A == Abs(M)
             t == BitLen(A) - Prec
         IN  IF t <= 0
             THEN [k |-> "num", m |-> Sgn(M) * A * Pow2(-t), e |-> e + t]
             ELSE LET q    == A \div Pow2(t)
                      r    == A % Pow2(t)
                      half == Pow2(t - 1)
                      up   == r > half \/ (r = half /\ q % 2 = 1)
                      q1   == IF up THEN q + 1 ELSE q
                  IN  IF q1 = Pow2(Prec)
                      THEN [k |-> "num", m |-> Sgn(M) * Pow2(Prec - 1), e |-> e + t + 1]
                      ELSE [k |-> "num", m |-> Sgn(M) * q1, e |-> e + t]

\* x + y of two finite floats as an integer times a power of two: exact when
\* the exponents are close, else the small operand is kept as a sticky unit
\* below every bit the rounding reads.
ExactSum(x, y) ==
    IF x.m = 0 THEN [M |-> y.m, e |-> y.e]
    ELSE IF y.m = 0 THEN [M |-> x.m, e |-> x.e]
    ELSE LET hi == IF x.e >= y.e THEN x ELSE y
             lo == IF x.e >= y.e THEN y ELSE x
             d  == hi.e - lo.e
         IN  IF d > Prec + 2
             THEN [M |-> hi.m * Pow2(Prec + 2) + Sgn(lo.m), e |-> hi.e - (Prec + 2)]
             ELSE [M |-> hi.m * Pow2(d) + lo.m, e |-> lo.e]

FNeg(x) == IF IsNum(x) THEN [x EXCEPT !.m = -x.m]
           ELSE IF x.k = "inf" THEN Inf(-x.m) ELSE NaN

FAdd(x, y) ==
    IF IsNaN(x) \/ IsNaN(y) THEN NaN
    ELSE IF x.k = "inf" /\ y.k = "inf" THEN (IF x.m = y.m THEN x ELSE NaN)
    ELSE IF x.k = "inf" THEN x
    ELSE IF y.k = "inf" THEN y
    ELSE LET s == ExactSum(x, y) IN RoundNE(s.M, s.e)

FSub(x, y) == FAdd(x, FNeg(y))

FMul(x, y) ==
    IF IsNaN(x) \/ IsNaN(y) THEN NaN
    ELSE IF x.k = "inf" \/ y.k = "inf"
         THEN (IF x.m = 0 \/ y.m = 0 THEN NaN ELSE Inf(Sgn(x.m) * Sgn(y.m)))
    ELSE RoundNE(x.m * y.m, x.e + y.e)

FDiv(x, y) ==
    IF IsNaN(x) \/ IsNaN(y) THEN NaN
    ELSE IF x.k = "inf" THEN (IF y.k = "inf" THEN NaN
                              ELSE Inf(x.m * (IF y.m < 0 THEN -1 ELSE 1)))
    ELSE IF y.k = "inf" THEN Zero
    ELSE IF y.m = 0 THEN (IF x.m = 0 THEN NaN ELSE Inf(Sgn(x.m)))
    ELSE IF x.m = 0 THEN Zero
    ELSE LET num == Abs(x.m) * Pow2(Prec + 2)
             q   == num \div Abs(y.m)
             st  == IF num % Abs(y.m) = 0 THEN 0 ELSE 1
         IN  RoundNE(Sgn(x.m) * Sgn(y.m) * (2 * q + st), x.e - y.e - (Prec + 3))

\* numpy.sqrt: NaN for a negative argument (with a warning, no exception).
FSqrt(x) ==
    IF IsNaN(x) THEN NaN
    ELSE IF x.k = "inf" THEN (IF x.m > 0 THEN x ELSE NaN)
    ELSE IF x.m < 0 THEN NaN
    ELSE IF x.m = 0 THEN Zero
    ELSE LET s  == IF (x.e - (Prec + 2)) % 2 = 0 THEN Prec + 2 ELSE Prec + 3
             N  == x.m * Pow2(s)
             r  == ISqrt(N)
             st == IF r * r = N THEN 0 ELSE 1
         IN  RoundNE(2 * r + st, ((x.e - s) \div 2) - 1)

\* Sign of x - y for finite x, y.
FCmp(x, y) == Sgn(ExactSum(x, FNeg(y)).M)

FLt(x, y) == IsNum(x) /\ IsNum(y) /\ FCmp(x, y) < 0

FLe(x, y) == IsNum(x) /\ IsNum(y) /\ FCmp(x, y) <= 0

\* An integer, and a decimal literal p/q, as the nearest float.
FInt(n) == RoundNE(n, 0)

FRat(p, q) == FDiv(FInt(p), FInt(q))

FMin(x, y) == IF FLe(y, x) THEN y ELSE x


(***************************************************************************)
(* Module constants (microscPSF.py:38-39, 52) and numpy.pi.                *)
(***************************************************************************)
num_basis == 100

\* rho_samples is 1000 in the source.  The model samples the pupil at
\* RhoSamples points, far fewer than 2^Prec, as 1000 is far fewer than 2^53:
\* neighbouring samples then stay many roundings apart, as they do in the code.
RhoSamples == 5

min_wavelength == FRat(436, 1000)

Pi == FRat(355, 113)

Two == FInt(2)

(***************************************************************************)
(* configure (microscPSF.py:50-60).                                        *)
(***************************************************************************)
\* scaling_factor[m-1] = NA * (3m - 2) * min_wavelength / wvl
ScalingFactor(mp, wvl, m) ==
    FDiv(FMul(FMul(mp.NA, FInt(3 * m - 2)), min_wavelength), wvl)

MaxRho(mp) ==
    FDiv(FMin(FMin(FMin(FMin(FMin(mp.NA, mp.ng0), mp.ng), mp.ni0), mp.ni), mp.ns),
         mp.NA)

configure(mp, wvl) ==
    [scaling_factor |-> [m \in 1..num_basis |-> ScalingFactor(mp, wvl, m)],
     max_rho        |-> MaxRho(mp)]

\* numpy.linspace(0.0, stop, n)[i], i = 0..n-1: i * (stop / (n - 1)), and the
\* last sample is set to stop itself.
Linspace0(stop, n, i) ==
    IF n > 1 /\ i = n - 1 THEN stop
    ELSE IF n = 1 THEN Zero
    ELSE FMul(FInt(i), FDiv(stop, FInt(n - 1)))

(***************************************************************************)
(* OPD (microscPSF.py:297-327), one element of the broadcast result.       *)
(***************************************************************************)
\* n * n - NA * NA * rho * rho, the argument of each numpy.sqrt in OPD.
SqrtArg(mp, n, rho) ==
    FSub(FMul(n, n), FMul(FMul(FMul(mp.NA, mp.NA), rho), rho))

OPDs(mp, rho, pz) == FMul(pz, FSqrt(SqrtArg(mp, mp.ns, rho)))

OPDi(mp, rho, ti) ==
    FSub(FMul(ti, FSqrt(SqrtArg(mp, mp.ni, rho))),
         FMul(mp.ti0, FSqrt(SqrtArg(mp, mp.ni0, rho))))

OPDg(mp, rho) ==
    FSub(FMul(mp.tg, FSqrt(SqrtArg(mp, mp.ng, rho))),
         FMul(mp.tg0, FSqrt(SqrtArg(mp, mp.ng0, rho))))

OPDt(mp, rho, zd) ==
    LET a == FDiv(FMul(mp.NA, mp.zd0), mp.M)
    IN  FDiv(FMul(FMul(FMul(FMul(a, a), FSub(mp.zd0, zd)), rho), rho),
             FMul(FMul(Two, mp.zd0), zd))

OPD(mp, rho, ti, pz, wvl, zd) ==
    LET k == FDiv(FMul(Two, Pi), wvl)
    IN  FMul(k, FAdd(FAdd(FAdd(OPDs(mp, rho, pz), OPDi(mp, rho, ti)),
                          OPDg(mp, rho)),
                     OPDt(mp, rho, zd)))

(***************************************************************************)
(* The radial transform of gLZRScan (microscPSF.py:180-181, 203-213), for  *)
(* one radius and one camera position.                                     *)
(***************************************************************************)
\* a = NA * zd0 / sqrt(M*M + NA*NA)
Aperture(mp) ==
    FDiv(FMul(mp.NA, mp.zd0),
         FSqrt(FAdd(FMul(mp.M, mp.M), FMul(mp.NA, mp.NA))))

WaveNumber(wvl) == FDiv(FMul(Two, Pi), wvl)

\* b = k * a * (rv * M) / zd
RadialB(mp, wvl, rv, zd) ==
    FDiv(FMul(FMul(WaveNumber(wvl), Aperture(mp)), FMul(rv, mp.M)), zd)

\* denom = scaling_factor * scaling_factor - b * b
Denom(sf, b) == FSub(FMul(sf, sf), FMul(b, b))

\* R /= denom: the quotient is finite unless denom is 0, where numpy divides
\* by zero (0/0 = NaN, x/0 = Inf, a warning and no exception).  The numerator
\* is a product of Bessel values and is not computed here.
REntry(sf, b) == IF Denom(sf, b) = Zero THEN "nonfinite" ELSE "finite"

(***************************************************************************)
(* One (axial, radius) sample of the two paths.  Both evaluate the pupil   *)
(* integral I = int_0^max_rho J0(k a rho rv M / zd) exp(i OPD(rho)) rho    *)
(* d rho: slowGL by quadrature, gLZRScan as R.dot(C), the Bessel series of *)
(* the phase integrated term by term.  The integral is not computed: I2    *)
(* stands for |I|^2 and is taken to be the same float on both paths.       *)
(***************************************************************************)
\* slowGL (microscPSF.py:383-384): t1 * (int_r * int_r + int_i * int_i) with
\* t1 = k * a * a / (zd * zd).
slowGL(mp, wvl, zd, I2) ==
    LET t1 == FDiv(FMul(FMul(WaveNumber(wvl), Aperture(mp)), Aperture(mp)),
                   FMul(zd, zd))
    IN  FMul(t1, I2)

\* gLZRScan (microscPSF.py:217): numpy.abs(R.dot(C))**2.
FastGL(I2) == I2

\* A sample of a grid whose largest sample is peak: divided by the maximum
\* of its own grid when normalize is set (microscPSF.py:220-221, 411-412).
SamplePair(mp, wvl, zd, I2, peak, normalize) ==
    [fast |-> IF normalize THEN FDiv(FastGL(I2), FastGL(peak)) ELSE FastGL(I2),
     slow |-> IF normalize
              THEN FDiv(slowGL(mp, wvl, zd, I2), slowGL(mp, wvl, zd, peak))
              ELSE slowGL(mp, wvl, zd, I2)]

(***************************************************************************)
(* SpecNum: calls of configure, of OPD as gLZRScan makes them (rho a       *)
(* sample of linspace(0, max_rho, rho_samples), ti = zv + ti0), of the     *)
(* radial transform, and of the two paths on one sample.                   *)
(***************************************************************************)
Dec(p, q) == FRat(p, q)

\* Microscope parameters: an oil objective over samples of two indices, with
\* the immersion oil, the coverslip and its thickness at or off design.
MpSet ==
    [NA  : {Dec(14, 10), Dec(12, 10)},
     M   : {FInt(100)},
     ns  : {Dec(133, 100), Dec(12, 10)},
     ng0 : {Dec(1515, 1000)},
     ng  : {Dec(1515, 1000), Dec(15, 10)},
     ni0 : {Dec(1515, 1000)},
     ni  : {Dec(1515, 1000), Dec(15, 10)},
     ti0 : {FInt(150)},
     tg  : {FInt(170)},
     tg0 : {FInt(170), FInt(160)},
     zd0 : {FInt(150000)}]

WvlSet == {Dec(6, 10)}

ZvSet == {Zero, FInt(-1)}

PzSet == {Zero, FInt(1)}

ZdSet == {FInt(150000), FInt(140000)}

Matched(mp) == mp.ni = mp.ni0 /\ mp.ng = mp.ng0 /\ mp.tg = mp.tg0

\* The parameter sets of the radial transform, which reads NA, M and zd0.
MpRadial == {mp \in MpSet : Matched(mp) /\ mp.ns = Dec(133, 100)}

\* The radii within RvWindow floats of sf_m * zd / (k * a * M), where the
\* scaling factor sf_m and b = k * a * rv * M / zd meet.
RvWindow == 2

RvNear(mp, wvl, zd, m) ==
    LET rv0 == FDiv(FMul(ScalingFactor(mp, wvl, m), zd),
                    FMul(FMul(WaveNumber(wvl), Aperture(mp)), mp.M))
    IN  {RoundNE(rv0.m + d, rv0.e) : d \in (-RvWindow)..RvWindow}

NumInit == fn = "none" /\ args = <<>> /\ ret = <<>>

CallConfigure ==
    \E mp \in MpSet, wvl \in WvlSet :
        /\ fn = "none"
        /\ fn' = "configure"
        /\ args' = [mp |-> mp, wvl |-> wvl]
        /\ ret' = configure(mp, wvl)

CallOPD ==
    \E mp \in MpSet, wvl \in WvlSet, i \in 0..(RhoSamples - 1),
       zv \in ZvSet, pz \in PzSet, zd \in ZdSet :
        LET rho == Linspace0(configure(mp, wvl).max_rho, RhoSamples, i)
            ti  == FAdd(zv, mp.ti0)
        IN  /\ fn = "none"
            /\ fn' = "OPD"
            /\ args' = [mp |-> mp, rho |-> rho, ti |-> ti, pz |-> pz,
                        wvl |-> wvl, zd |-> zd]
            /\ ret' = OPD(mp, rho, ti, pz, wvl, zd)

\* Entry (rv, m) of R for a scalar camera position zd = zd0, as
\* gLZRFocalScan and gLZRParticleScan pass it by default.
CallRadial ==
    \E mp \in MpRadial, wvl \in WvlSet, m \in 1..num_basis :
        \E rv \in RvNear(mp, wvl, mp.zd0, m) :
            LET zd == mp.zd0
                sf == ScalingFactor(mp, wvl, m)
                b  == RadialB(mp, wvl, rv, zd)
            IN  /\ fn = "none"
                /\ fn' = "radial"
                /\ args' = [mp |-> mp, wvl |-> wvl, rv |-> rv, zd |-> zd, m |-> m]
                /\ ret' = [sf |-> sf, b |-> b, denom |-> Denom(sf, b),
                           R |-> REntry(sf, b)]

\* |I|^2 at the peak of a grid and at samples 2 and 4 times darker.
PeakI2 == FRat(1, 4)

I2Set == {PeakI2, FRat(1, 8), FRat(1, 16)}

\* The same sample from gLZRFocalScan and from gLZRFocalScanSlow, zd = zd0.
CallSample ==
    \E mp \in MpRadial, wvl \in WvlSet, I2 \in I2Set, normalize \in BOOLEAN :
        /\ fn = "none"
        /\ fn' = "sample"
        /\ args' = [mp |-> mp, wvl |-> wvl, zd |-> mp.zd0, I2 |-> I2,
                    normalize |-> normalize]
        /\ ret' = SamplePair(mp, wvl, mp.zd0, I2, PeakI2, normalize)

NumNext == CallConfigure \/ CallOPD \/ CallRadial \/ CallSample

SpecNum == NumInit /\ [][NumNext]_vars

(***************************************************************************)
(* Pixel geometry.  Lengths are exact integers counted in half units, so   *)
(* that the radial step dxy / sampling (sampling = 2) is the integer dxy   *)
(* and a pixel centre (index + 0.5) is an integer: a radius r microns is   *)
(* carried as 2 r, or as its square where it is a square root.             *)
(***************************************************************************)
\* calcRv with rv_max = sqrt(0.5 * xy_size) + 1: the square of xy_size dropped.
RvIndicesNoSquare(xy_size) ==
    {i \in 0..(2 * xy_size + 2) : i < 2 \/ (i - 2) * (i - 2) < 2 * xy_size}

\* calcRv (microscPSF.py:42-47): numpy.arange(0, rv_max * dxy, dxy / 2) with
\* rv_max = sqrt(0.5 * xy_size^2) + 1 holds every i * dxy / 2, i = 0, 1, ...,
\* below rv_max * dxy, that is every i with i < 2 or (i - 2)^2 < 2 xy_size^2.
RvIndices(xy_size) ==
    {i \in 0..(2 * xy_size + 2) : i < 2 \/ (i - 2) * (i - 2) < 2 * xy_size * xy_size}

calcRv(dxy, xy_size) ==
    [j \in 1..Cardinality(RvIndices(xy_size)) |-> (j - 1) * dxy]

\* r_pixel with the pixel centres at the integer indices (the + 0.5 dropped).
RPixelSqNoHalf(dxy, xy_size, y, x) ==
    dxy * dxy * ((2 * x - xy_size) * (2 * x - xy_size)
                 + (2 * y - xy_size) * (2 * y - xy_size))

\* r_pixel squared (microscPSF.py:335-337):
\* (2 r_pixel)^2 = dxy^2 ((2 x + 1 - xy_size)^2 + (2 y + 1 - xy_size)^2)
\* for c_xy = xy_size / 2 and pixel centres x + 0.5, y + 0.5.
RPixelSq(dxy, xy_size, y, x) ==
    dxy * dxy * ((2 * x + 1 - xy_size) * (2 * x + 1 - xy_size)
                 + (2 * y + 1 - xy_size) * (2 * y + 1 - xy_size))

\* Interpolated intensities are fixed point with InterpScale steps per unit.
InterpScale == 16

\* scipy.interpolate.interp1d(xs, ys) at the radius whose square is rsq:
\* linear between the two samples around it; a radius outside
\* [xs[1], xs[Len(xs)]] raises ValueError (bounds_error).
InRange(xs, rsq) == xs[1] * xs[1] <= rsq /\ rsq <= xs[Len(xs)] * xs[Len(xs)]

\* The samples <<lo, hi>> around the radius (numpy.searchsorted, clipped).
Segment(xs, rsq) ==
    LET hi0 == CHOOSE j \in 1..Len(xs) :
                   /\ xs[j] * xs[j] >= rsq
                   /\ \A i \in 1..(j - 1) : xs[i] * xs[i] < rsq
        hi  == IF hi0 = 1 THEN (IF Len(xs) > 1 THEN 2 ELSE 1) ELSE hi0
    IN  <<IF hi = 1 THEN 1 ELSE hi - 1, hi>>

Interp1d(xs, ys, rsq) ==
    LET lo == Segment(xs, rsq)[1]
        hi == Segment(xs, rsq)[2]
        r  == ISqrt(rsq * InterpScale * InterpScale)
    IN  IF hi = lo THEN ys[lo] * InterpScale
        ELSE ys[lo] * InterpScale
             + ((ys[hi] - ys[lo]) * (r - xs[lo] * InterpScale)) \div (xs[hi] - xs[lo])

\* psfRZToPSFXYZ (microscPSF.py:330-345): PSF_xyz[i][y][x] is row i of PSF_rz
\* interpolated at r_pixel[y][x]; the volume has PSF_rz.shape[0] slices.
\* interp1d raises ValueError when rv and a row differ in length.
psfRZToPSFXYZ(dxy, xy_size, rv, PSF_rz) ==
    IF Len(PSF_rz[1]) # Len(rv) THEN [st |-> "raise", exc |-> "ValueError"]
    ELSE IF \E y \in 0..(xy_size - 1), x \in 0..(xy_size - 1) :
           ~InRange(rv, RPixelSq(dxy, xy_size, y, x))
    THEN [st |-> "raise", exc |-> "ValueError"]
    ELSE [st   |-> "ok",
          data |-> [i \in 1..Len(PSF_rz) |->
                      [y \in 1..xy_size |->
                         [x \in 1..xy_size |->
                            Interp1d(rv, PSF_rz[i],
                                     RPixelSq(dxy, xy_size, y - 1, x - 1))]]]]

\* The numpy shape of a volume (slices, rows, columns).
Shape3(data) == <<Len(data), Len(data[1]), Len(data[1][1])>>

(***************************************************************************)
(* SpecGeom: calls of calcRv and of psfRZToPSFXYZ, on the radius vector    *)
(* the gLXYZ*Scan functions pass (calcRv of the same dxy and xy_size,      *)
(* args.entry) and on one made for an image two pixels smaller.            *)
(***************************************************************************)
\* Images of up to MaxXY by MaxXY pixels: 8 is the first size with two
\* pixels at one distance from the centre that are no mirror images of each
\* other, (0.5, 3.5) and (2.5, 2.5) pixels off the centre.
MaxXY == 8

MaxSlices == 2

DxySet == {1, 3}

\* Radial profiles: a ramp, which tells every two radii apart, and a single
\* peak next to the centre or at the last sample.
RowSet(n) ==
    {[j \in 1..n |-> IF j = p THEN 2 ELSE 0] : p \in {2, n}}
        \cup {[j \in 1..n |-> j - 1]}

GridSet(n) == UNION {[1..z -> RowSet(n)] : z \in 1..MaxSlices}

GeomInit == fn = "none" /\ args = <<>> /\ ret = <<>>

CallCalcRv ==
    \E dxy \in DxySet, xy_size \in 1..MaxXY :
        /\ fn = "none"
        /\ fn' = "calcRv"
        /\ args' = [dxy |-> dxy, xy_size |-> xy_size]
        /\ ret' = calcRv(dxy, xy_size)

CallPsfRZToPSFXYZ ==
    \E dxy \in DxySet, xy_size \in 1..MaxXY :
      \E rv_size \in {xy_size, Max2(1, xy_size - 2)} :
        LET rv == calcRv(dxy, rv_size)
        IN  \E PSF_rz \in GridSet(Len(rv)) :
                /\ fn = "none"
                /\ fn' = "psfRZToPSFXYZ"
                /\ args' = [dxy |-> dxy, xy_size |-> xy_size, rv |-> rv,
                            PSF_rz |-> PSF_rz, entry |-> rv_size = xy_size]
                /\ ret' = psfRZToPSFXYZ(dxy, xy_size, rv, PSF_rz)

GeomNext == CallCalcRv \/ CallPsfRZToPSFXYZ

SpecGeom == GeomInit /\ [][GeomNext]_vars

(***************************************************************************)
(* Spec: the scan functions on arrays.  A 1-D argument is given by its     *)
(* size (a scalar passed where numpy.array([x]) wraps it has size 1), an   *)
(* intermediate array by its numpy shape.  The Bessel series, the least    *)
(* squares fit and the quadrature are not computed: a cell of a grid is    *)
(* "zero" (exactly 0.0), "pos" (positive and finite) or "nan".             *)
(***************************************************************************)
BcError == <<-1>>

Pad(s, n) == [i \in 1..n |-> IF i <= n - Len(s) THEN 1 ELSE s[i - (n - Len(s))]]

\* numpy broadcasting: shapes are aligned on the right; two dimensions go
\* together when they are equal or one of them is 1.
Broadcast(s, t) ==
    IF s = BcError \/ t = BcError THEN BcError
    ELSE LET n  == Max2(Len(s), Len(t))
             ps == Pad(s, n)
             pt == Pad(t, n)
         IN  IF \A i \in 1..n : ps[i] = pt[i] \/ ps[i] = 1 \/ pt[i] = 1
             THEN [i \in 1..n |-> IF ps[i] = 1 THEN pt[i] ELSE ps[i]]
             ELSE BcError

\* The shape of OPD's result (microscPSF.py:322-327) from the shapes of rho,
\* ti, pz and zd.
OPDShape(rho, ti, pz, zd) ==
    LET sOPDs == Broadcast(pz, rho)
        sOPDi == Broadcast(Broadcast(ti, rho), rho)
        sOPDg == rho
        sOPDt == Broadcast(Broadcast(Broadcast(zd, rho), rho), zd)
    IN  Broadcast(Broadcast(Broadcast(sOPDs, sOPDi), sOPDg), sOPDt)

Raise(exc) == [st |-> "raise", exc |-> exc]

Ok(data) == [st |-> "ok", data |-> data]

\* The numpy shape of a grid (rows, columns).
Shape2(data) == <<Len(data), Len(data[1])>>

Cells(data) == {data[i][j] : i \in 1..Len(data), j \in 1..Len(data[1])}

\* numpy.max of a grid: NaN when a cell is NaN.
GridMax(data) ==
    IF "nan" \in Cells(data) THEN "nan"
    ELSE IF "pos" \in Cells(data) THEN "pos" ELSE "zero"

\* cell / mx in floating point: 0/0 is NaN (a warning, no exception).
DivCell(cell, mx) ==
    IF cell = "nan" \/ mx = "nan" THEN "nan"
    ELSE IF mx = "zero" THEN "nan"
    ELSE cell

\* PSF_rz /= numpy.max(PSF_rz)  (microscPSF.py:220-221, 411-412, 442-443)
Normalize(data) ==
    LET mx == GridMax(data)
    IN  [i \in 1..Len(data) |-> [j \in 1..Len(data[1]) |-> DivCell(data[i][j], mx)]]

\* A cell of the unnormalised grid: the radial transform R carries the factor
\* max_rho and the reference integral runs over [0, max_rho], so an empty
\* pupil (max_rho = 0) gives exactly 0.
Cell(max_rho) == IF max_rho = Zero THEN "zero" ELSE "pos"

\* gLZRScan without the final transpose: the radius along the first axis.
gLZRScanNoTranspose(mp, pz, rv, zd, zv, normalize, wvl) ==
    LET cfg   == configure(mp, wvl)
        cell  == Cell(cfg.max_rho)
        opdt  == OPDShape(<<RhoSamples>>, <<zv, 1>>, <<pz, 1>>, <<zd, 1>>)
        C     == IF opdt = BcError THEN BcError ELSE <<num_basis, opdt[1]>>
        b     == Broadcast(<<rv, 1>>, <<zd, 1>>)
        grid  == [j \in 1..b[1] |-> [i \in 1..C[2] |-> cell]]
    IN  IF opdt = BcError \/ b = BcError THEN Raise("ValueError")
        ELSE Ok(IF normalize THEN Normalize(grid) ELSE grid)

\* gLZRScan (microscPSF.py:161-223); pz, rv, zd, zv are the sizes of the 1-D
\* arrays passed.
gLZRScan(mp, pz, rv, zd, zv, normalize, wvl) ==
    LET cfg   == configure(mp, wvl)
        cell  == Cell(cfg.max_rho)
        rho   == <<RhoSamples>>
        ti    == <<zv, 1>>
        pzc   == <<pz, 1>>
        zdc   == <<zd, 1>>
        opdt  == OPDShape(rho, ti, pzc, zdc)
        J     == <<num_basis, RhoSamples>>
        \* C = lstsq(J.T, phase.T): (num_basis, number of rows of phase)
        C     == IF opdt = BcError THEN BcError ELSE <<J[1], opdt[1]>>
        b     == Broadcast(<<rv, 1>>, zdc)
        denom == Broadcast(<<num_basis>>, Broadcast(b, b))
        R     == Broadcast(Broadcast(<<num_basis>>, b), denom)
        \* (abs(R.dot(C))**2).T
        grid  == [i \in 1..C[2] |-> [j \in 1..R[1] |-> cell]]
    IN  IF opdt = BcError \/ b = BcError THEN Raise("ValueError")
        ELSE Ok(IF normalize THEN Normalize(grid) ELSE grid)

\* gLZRCameraScan (microscPSF.py:226-246)
gLZRCameraScan(mp, rv, zd, normalize, pz, wvl, zv) ==
    gLZRScan(mp, pz, rv, zd, zv, normalize, wvl)

\* gLZRFocalScan (microscPSF.py:249-270); zd = 0 stands for None, which is
\* replaced by the scalar mp["zd0"].
gLZRFocalScan(mp, rv, zv, normalize, pz, wvl, zd) ==
    gLZRScan(mp, pz, rv, IF zd = 0 THEN 1 ELSE zd, zv, normalize, wvl)

\* gLZRParticleScan (microscPSF.py:273-294)
gLZRParticleScan(mp, rv, pz, normalize, wvl, zd, zv) ==
    gLZRScan(mp, pz, rv, IF zd = 0 THEN 1 ELSE zd, zv, normalize, wvl)

\* gLZRFocalScanSlow (microscPSF.py:387-414), scalar pz and zd: a grid of
\* zv.size by rv.size values of slowGL.
gLZRFocalScanSlow(mp, rv, zv, normalize, wvl) ==
    LET cfg  == configure(mp, wvl)
        cell == Cell(cfg.max_rho)
        grid == [i \in 1..zv |-> [j \in 1..rv |-> cell]]
    IN  Ok(IF normalize THEN Normalize(grid) ELSE grid)

\* gLZRParticleScanSlow (microscPSF.py:417-445), scalar zv and zd.
gLZRParticleScanSlow(mp, rv, pz, normalize, wvl) ==
    LET cfg  == configure(mp, wvl)
        cell == Cell(cfg.max_rho)
        grid == [i \in 1..pz |-> [j \in 1..rv |-> cell]]
    IN  Ok(IF normalize THEN Normalize(grid) ELSE grid)

\* psfRZToPSFXYZ (microscPSF.py:330-345) on cells: a pixel between two
\* samples is NaN when one of them is, 0 when both are 0.
InterpCell(xs, ys, rsq) ==
    LET lo == Segment(xs, rsq)[1]
        hi == Segment(xs, rsq)[2]
    IN  IF ys[lo] = "nan" \/ ys[hi] = "nan" THEN "nan"
        ELSE IF ys[lo] = "zero" /\ ys[hi] = "zero" THEN "zero"
        ELSE "pos"

ProjectCells(dxy, xy_size, rv, rz) ==
    IF rz.st = "raise" THEN rz
    ELSE IF Len(rz.data[1]) # Len(rv) THEN Raise("ValueError")
    ELSE IF \E y \in 0..(xy_size - 1), x \in 0..(xy_size - 1) :
               ~InRange(rv, RPixelSq(dxy, xy_size, y, x))
    THEN Raise("ValueError")
    ELSE Ok([i \in 1..Len(rz.data) |->
               [y \in 1..xy_size |->
                  [x \in 1..xy_size |->
                     InterpCell(rv, rz.data[i],
                                RPixelSq(dxy, xy_size, y - 1, x - 1))]]])

\* gLXYZCameraScan (microscPSF.py:74-101)
gLXYZCameraScan(mp, dxy, xy_size, zd, normalize, pz, wvl, zv) ==
    LET rv == calcRv(dxy, xy_size)
    IN  ProjectCells(dxy, xy_size, rv,
                     gLZRCameraScan(mp, Len(rv), zd, normalize, pz, wvl, zv))

\* gLXYZFocalScan (microscPSF.py:104-129)
gLXYZFocalScan(mp, dxy, xy_size, zv, normalize, pz, wvl, zd) ==
    LET rv == calcRv(dxy, xy_size)
    IN  ProjectCells(dxy, xy_size, rv,
                     gLZRFocalScan(mp, Len(rv), zv, normalize, pz, wvl, zd))

\* gLXYZParticleScan (microscPSF.py:132-158)
gLXYZParticleScan(mp, dxy, xy_size, pz, normalize, wvl, zd, zv) ==
    LET rv == calcRv(dxy, xy_size)
    IN  ProjectCells(dxy, xy_size, rv,
                     gLZRParticleScan(mp, Len(rv), pz, normalize, wvl, zd, zv))

MaxLen == 4

\* The objective of the end-to-end example, over water (ns = 1.33) and with
\* a sample index of 0, which empties the pupil.
MpLit ==
    [NA |-> Dec(14, 10), M |-> FInt(100), ns |-> Dec(133, 100),
     ng0 |-> Dec(1515, 1000), ng |-> Dec(1515, 1000),
     ni0 |-> Dec(1515, 1000), ni |-> Dec(1515, 1000),
     ti0 |-> FInt(150), tg |-> FInt(170), tg0 |-> FInt(170),
     zd0 |-> FInt(150000)]

MpShape == {MpLit, [MpLit EXCEPT !.ns = Zero]}

Wvl == Dec(6, 10)

Init == fn = "none" /\ args = <<>> /\ ret = <<>>

CallGLZRScan ==
    \E mp \in MpShape, pz \in 1..MaxLen, rv \in 1..MaxLen, zd \in 1..MaxLen,
       zv \in 1..MaxLen, normalize \in BOOLEAN :
        /\ fn = "none"
        /\ fn' = "gLZRScan"
        /\ args' = [mp |-> mp, pz |-> pz, rv |-> rv, zd |-> zd, zv |-> zv,
                    normalize |-> normalize, wvl |-> Wvl]
        /\ ret' = gLZRScan(mp, pz, rv, zd, zv, normalize, Wvl)

CallGLZRCameraScan ==
    \E mp \in MpShape, rv \in 1..MaxLen, zd \in 1..MaxLen, normalize \in BOOLEAN,
       pz \in 1..MaxLen, zv \in 1..MaxLen :
        /\ fn = "none"
        /\ fn' = "gLZRCameraScan"
        /\ args' = [mp |-> mp, pz |-> pz, rv |-> rv, zd |-> zd, zv |-> zv,
                    normalize |-> normalize, wvl |-> Wvl]
        /\ ret' = gLZRCameraScan(mp, rv, zd, normalize, pz, Wvl, zv)

CallGLZRFocalScan ==
    \E mp \in MpShape, rv \in 1..MaxLen, zv \in 1..MaxLen, normalize \in BOOLEAN,
       pz \in 1..MaxLen, zd \in 0..MaxLen :
        /\ fn = "none"
        /\ fn' = "gLZRFocalScan"
        /\ args' = [mp |-> mp, pz |-> pz, rv |-> rv, zd |-> zd, zv |-> zv,
                    normalize |-> normalize, wvl |-> Wvl]
        /\ ret' = gLZRFocalScan(mp, rv, zv, normalize, pz, Wvl, zd)

CallGLZRParticleScan ==
    \E mp \in MpShape, rv \in 1..MaxLen, pz \in 1..MaxLen, normalize \in BOOLEAN,
       zd \in 0..MaxLen, zv \in 1..MaxLen :
        /\ fn = "none"
        /\ fn' = "gLZRParticleScan"
        /\ args' = [mp |-> mp, pz |-> pz, rv |-> rv, zd |-> zd, zv |-> zv,
                    normalize |-> normalize, wvl |-> Wvl]
        /\ ret' = gLZRParticleScan(mp, rv, pz, normalize, Wvl, zd, zv)

CallGLZRFocalScanSlow ==
    \E mp \in MpShape, rv \in 1..MaxLen, zv \in 1..MaxLen, normalize \in BOOLEAN :
        /\ fn = "none"
        /\ fn' = "gLZRFocalScanSlow"
        /\ args' = [mp |-> mp, pz |-> 1, rv |-> rv, zd |-> 0, zv |-> zv,
                    normalize |-> normalize, wvl |-> Wvl]
        /\ ret' = gLZRFocalScanSlow(mp, rv, zv, normalize, Wvl)

CallGLZRParticleScanSlow ==
    \E mp \in MpShape, rv \in 1..MaxLen, pz \in 1..MaxLen, normalize \in BOOLEAN :
        /\ fn = "none"
        /\ fn' = "gLZRParticleScanSlow"
        /\ args' = [mp |-> mp, pz |-> pz, rv |-> rv, zd |-> 0, zv |-> 1,
                    normalize |-> normalize, wvl |-> Wvl]
        /\ ret' = gLZRParticleScanSlow(mp, rv, pz, normalize, Wvl)

CallGLXYZCameraScan ==
    \E mp \in MpShape, dxy \in DxySet, xy_size \in 1..MaxLen, zd \in 1..MaxLen,
       normalize \in BOOLEAN, pz \in 1..2, zv \in 1..2 :
        /\ fn = "none"
        /\ fn' = "gLXYZCameraScan"
        /\ args' = [mp |-> mp, dxy |-> dxy, xy_size |-> xy_size, pz |-> pz,
                    zd |-> zd, zv |-> zv, normalize |-> normalize, wvl |-> Wvl]
        /\ ret' = gLXYZCameraScan(mp, dxy, xy_size, zd, normalize, pz, Wvl, zv)

CallGLXYZFocalScan ==
    \E mp \in MpShape, dxy \in DxySet, xy_size \in 1..MaxLen, zv \in 1..MaxLen,
       normalize \in BOOLEAN, pz \in 1..2, zd \in 0..2 :
        /\ fn = "none"
        /\ fn' = "gLXYZFocalScan"
        /\ args' = [mp |-> mp, dxy |-> dxy, xy_size |-> xy_size, pz |-> pz,
                    zd |-> zd, zv |-> zv, normalize |-> normalize, wvl |-> Wvl]
        /\ ret' = gLXYZFocalScan(mp, dxy, xy_size, zv, normalize, pz, Wvl, zd)

CallGLXYZParticleScan ==
    \E mp \in MpShape, dxy \in DxySet, xy_size \in 1..MaxLen, pz \in 1..MaxLen,
       normalize \in BOOLEAN, zd \in 0..2, zv \in 1..2 :
        /\ fn = "none"
        /\ fn' = "gLXYZParticleScan"
        /\ args' = [mp |-> mp, dxy |-> dxy, xy_size |-> xy_size, pz |-> pz,
                    zd |-> zd, zv |-> zv, normalize |-> normalize, wvl |-> Wvl]
        /\ ret' = gLXYZParticleScan(mp, dxy, xy_size, pz, normalize, Wvl, zd, zv)

Next ==
    \/ CallGLZRScan
    \/ CallGLZRCameraScan
    \/ CallGLZRFocalScan
    \/ CallGLZRParticleScan
    \/ CallGLZRFocalScanSlow
    \/ CallGLZRParticleScanSlow
    \/ CallGLXYZCameraScan
    \/ CallGLXYZFocalScan
    \/ CallGLXYZParticleScan

Spec == Init /\ [][Next]_vars


(***************************************************************************)
(* Properties of the pixel geometry, checked under SpecGeom.               *)
(***************************************************************************)
\* The squared distance, in half units, of the centre of pixel (y, x) from
\* the centre of an image of xy_size by xy_size pixels of width dxy.
CentreDistSq(dxy, xy_size, y, x) ==
    dxy * dxy * (((2 * x + 1) - xy_size) ^ 2 + ((2 * y + 1) - xy_size) ^ 2)

\* C7: every z-slice of the volume psfRZToPSFXYZ returns is radially
\* symmetric about the image centre: two pixels whose centres are at the
\* same distance from the centre hold the same value, so a slice is
\* unchanged by transposition and by reflection through either centre line.
C7_RadialSymmetry ==
    (fn = "psfRZToPSFXYZ" /\ ret.st = "ok") =>
        LET n  == args.xy_size
            px == 1..n
        IN  \A i \in 1..Len(ret.data) :
              /\ \A y1 \in px, x1 \in px, y2 \in px, x2 \in px :
                    CentreDistSq(args.dxy, n, y1 - 1, x1 - 1)
                        = CentreDistSq(args.dxy, n, y2 - 1, x2 - 1)
                    => ret.data[i][y1][x1] = ret.data[i][y2][x2]
              /\ \A y \in px, x \in px :
                    /\ ret.data[i][y][x] = ret.data[i][x][y]
                    /\ ret.data[i][y][x] = ret.data[i][n + 1 - y][x]
                    /\ ret.data[i][y][x] = ret.data[i][y][n + 1 - x]

\* An 8 by 8 slice that is not flat: pixels (7, 4) and (6, 6), at 0.5, 3.5
\* and 2.5, 2.5 pixels from the centre and so equally far, hold one value,
\* as do the mirror images of (7, 4); the corner holds another.
C7_Witness ==
    /\ fn = "psfRZToPSFXYZ" /\ ret.st = "ok" /\ args.xy_size = 8
    /\ ret.data[1][8][5] > 0
    /\ ret.data[1][8][5] = ret.data[1][7][7]
    /\ ret.data[1][8][5] = ret.data[1][5][8]
    /\ ret.data[1][8][5] = ret.data[1][1][4]
    /\ ret.data[1][8][5] # ret.data[1][8][8]

\* C10: calcRv starts at 0 and rises in steps of dxy / 2 (dxy in half
\* units) up to a radius that is at least the largest pixel radius, the
\* corner pixel's dxy (xy_size - 1) / sqrt(2); so interpolating onto the
\* pixels with the radius vector of the same dxy and xy_size never fails
\* with an out-of-range error.
C10_RvCoversPixels ==
    /\ fn = "calcRv" =>
          /\ Len(ret) >= 1 /\ ret[1] = 0
          /\ \A j \in 1..(Len(ret) - 1) : ret[j + 1] - ret[j] = args.dxy
          /\ ret[Len(ret)] ^ 2
                >= 2 * args.dxy ^ 2 * (args.xy_size - 1) ^ 2
          /\ \A y \in 0..(args.xy_size - 1), x \in 0..(args.xy_size - 1) :
                CentreDistSq(args.dxy, args.xy_size, y, x) <= ret[Len(ret)] ^ 2
    /\ (fn = "psfRZToPSFXYZ" /\ args.entry) => ret.st = "ok"

\* The largest image, interpolated on its own radius vector: the corner
\* pixel lies beyond the first half of the vector and a volume is returned.
C10_Witness ==
    /\ fn = "psfRZToPSFXYZ" /\ args.entry /\ args.xy_size = MaxXY
    /\ ret.st = "ok"
    /\ 2 * ISqrt(CentreDistSq(args.dxy, MaxXY, 0, 0))
           > args.rv[Len(args.rv)]

(***************************************************************************)
(* Properties of the array shapes, checked under Spec.                     *)
(***************************************************************************)
\* The two non-swept arguments of a call are scalars (zd may be left None).
ScalarRest(sweep) ==
    \A q \in {"pz", "zd", "zv"} \ {sweep} : args[q] <= 1

\* The length of the swept vector of a focal or particle scan.
SweepLen == IF fn \in {"gLXYZFocalScan", "gLZRFocalScan"} THEN args.zv ELSE args.pz

C3_CameraShape ==
    (fn = "gLXYZCameraScan" /\ args.pz = 1 /\ args.zv = 1) =>
        /\ ret.st = "ok"
        /\ Shape3(ret.data) = <<args.zd, args.xy_size, args.xy_size>>

\* The functions that normalise a grid, and those that take pz, zd and zv
\* as arrays.
Normalising ==
    {"gLZRScan", "gLZRCameraScan", "gLZRFocalScan", "gLZRParticleScan",
     "gLZRFocalScanSlow", "gLZRParticleScanSlow",
     "gLXYZCameraScan", "gLXYZFocalScan", "gLXYZParticleScan"}

RadialScans == {"gLZRScan", "gLZRCameraScan", "gLZRFocalScan", "gLZRParticleScan"}

\* C4: a call that asks for normalisation of a grid whose maximum is 0 (an
\* all-dark PSF, here of an empty pupil) fails with an error and returns no
\* grid.
C4_DarkNormalizationFails ==
    (/\ fn \in Normalising
     /\ args.normalize
     /\ Cell(configure(args.mp, args.wvl).max_rho) = "zero") =>
        ret.st = "raise"

\* C5: a call of gLZRScan, or of a wrapper of it, in which more than one of
\* pz, zd and zv has more than one element fails with an error, whatever
\* the lengths.
C5_AmbiguousScanFails ==
    (/\ fn \in RadialScans
     /\ Cardinality({q \in {"pz", "zd", "zv"} : args[q] > 1}) > 1) =>
        ret.st = "raise"

(***************************************************************************)
(* Properties of the floating-point computations, checked under SpecNum.   *)
(***************************************************************************)
Tolerance == FRat(1, 1000)

\* C1: the fast path and the reference integration agree on a sample to
\* within a relative tolerance of 1e-3, with normalisation and without.
C1_FastSlowAgree ==
    fn = "sample" =>
        LET bound == FMul(Tolerance, FMin(ret.fast, ret.slow))
        IN  /\ FLe(FSub(ret.fast, ret.slow), bound)
            /\ FLe(FSub(ret.slow, ret.fast), bound)

\* C6: with every actual value at its design value (ni = ni0, ng = ng0,
\* tg = tg0), OPD(mp, rho, ti0, 0, wvl, zd0) is exactly 0 for every rho of
\* the pupil sampling.
C6_MatchedOPDZero ==
    (/\ fn = "OPD"
     /\ Matched(args.mp)
     /\ args.ti = args.mp.ti0 /\ args.pz = Zero /\ args.zd = args.mp.zd0) =>
        ret = Zero

\* C8: the radial transform divides by no zero: every entry of R is finite,
\* also where scaling_factor^2 = b^2.
C8_RadialFinite ==
    fn = "radial" => ret.R = "finite"

\* C9: for every rho of the pupil sampling over [0, max_rho] and every
\* index n of ns, ni, ni0, ng, ng0, the argument n^2 - NA^2 rho^2 of the
\* square root in OPD is not negative.
C9_SqrtArgNonNegative ==
    fn = "OPD" =>
        \A n \in {args.mp.ns, args.mp.ni, args.mp.ni0, args.mp.ng, args.mp.ng0} :
            ~FLt(SqrtArg(args.mp, n, args.rho), Zero)
=============================================================================
